---- MODULE Spec2Model ----
(***************************************************************************)
(* acled_concat: consolidation of ACLED CSV shards (acled_concat/cli.py).  *)
(*                                                                         *)
(* concat(source_dir) is modelled as a state machine with one action per   *)
(* stage of the driver: shard discovery, the loading of one shard, one     *)
(* fold step of the merge, and the final write of the output file.         *)
(*                                                                         *)
(* File names are sequences of Unicode code points, so that the glob, the  *)
(* startswith test and the regular expression of the discovery are         *)
(* computed on the characters.  Dates are day numbers, timestamps are      *)
(* integers, event identifiers are integers ordered as the identifier      *)
(* strings are.  A table is the sequence of its rows; a row carries the    *)
(* columns the algorithm reads (the other retained columns are carried     *)
(* through unchanged by the code and are not represented).                 *)
(***************************************************************************)
EXTENDS Integers, Sequences, FiniteSets, TLC

VARIABLES
    listing,       \* the files of source_dir, in the order the filesystem lists them
    pc,            \* the stage concat is at
    shard_paths,   \* concat: shard_paths
    dataframes,    \* concat: dataframes
    consolidated,  \* concat: consolidated (the accumulator of the fold)
    k,             \* index in dataframes of the next table to fold
    out_file,      \* the file source_dir/consolidated_acled.csv
    n_writes,      \* number of times the output file was written
    error          \* the exception that ended the run, if any

vars == <<listing, pc, shard_paths, dataframes, consolidated, k, out_file,
          n_writes, error>>

----------------------------------------------------------------------------
(* Bounds of the model *)

\* largest number of files in source_dir (discovery-only specification)
MaxFiles == 4
\* largest number of rows of one shard (merge specification)
MaxRows == 2
\* event identifiers are 1..NumIds
NumIds == 2
\* event dates are 1..NumDates
NumDates == 2
\* timestamps are 1..NumTs
NumTs == 2

----------------------------------------------------------------------------
(* File names *)

\* ord(c), for the characters that the names of the model are written with
Ord(c) ==
    CASE c = "0" -> 48 [] c = "1" -> 49 [] c = "2" -> 50 [] c = "3" -> 51
      [] c = "4" -> 52 [] c = "5" -> 53 [] c = "6" -> 54 [] c = "7" -> 55
      [] c = "8" -> 56 [] c = "9" -> 57
      [] c = "-" -> 45 [] c = "." -> 46 [] c = "_" -> 95
      [] c = "a" -> 97 [] c = "b" -> 98 [] c = "c" -> 99 [] c = "d" -> 100
      [] c = "e" -> 101 [] c = "i" -> 105 [] c = "l" -> 108 [] c = "n" -> 110
      [] c = "o" -> 111 [] c = "s" -> 115 [] c = "t" -> 116 [] c = "v" -> 118
      [] c = "x" -> 120

\* a str: the sequence of the code points of its characters
Str(s) == [i \in 1..Len(s) |-> Ord(s[i])]

\* the character "\n"
Newline == 10

\* The code points of the digit zero of every run of decimal digits of
\* Unicode (category Nd): each run holds the digits 0 to 9 in order.
NdZeros ==
    {48, 1632, 1776, 1984, 2406, 2534, 2662, 2790, 2918, 3046, 3174, 3302,
     3430, 3558, 3664, 3792, 3872, 4160, 4240, 6112, 6160, 6470, 6608, 6784,
     6800, 6992, 7088, 7232, 7248, 42528, 43216, 43264, 43472, 43504, 43600,
     44016, 65296, 66720, 68912, 69734, 69872, 69942, 70096, 70384, 70736,
     70864, 71248, 71360, 71472, 71904, 72016, 72784, 73040, 73120, 92768,
     92864, 93008, 120782, 120792, 120802, 120812, 120822, 123200, 123632,
     125264, 130032}

\* \d of a str pattern: any Unicode decimal digit
Digits == UNION {z..(z + 9) : z \in NdZeros}

\* the value int() gives a decimal digit
DigitVal(c) == c - (CHOOSE z \in NdZeros : c \in z..(z + 9))

DotCsv == Str(<<".", "c", "s", "v">>)
DashAcled == Str(<<"-", "a", "c", "l", "e", "d">>)
ConsolidatedAcled ==
    Str(<<"c", "o", "n", "s", "o", "l", "i", "d", "a", "t", "e", "d",
          "_", "a", "c", "l", "e", "d">>)

\* str.startswith
StartsWith(name, prefix) ==
    /\ Len(name) >= Len(prefix)
    /\ SubSeq(name, 1, Len(prefix)) = prefix

\* str.endswith
EndsWith(name, suffix) ==
    /\ Len(name) >= Len(suffix)
    /\ SubSeq(name, Len(name) - Len(suffix) + 1, Len(name)) = suffix

\* Path(source_dir).glob("*.csv") keeps the names that end in ".csv"
IsCsv(name) == EndsWith(name, DotCsv)

\* path.name.startswith('consolidated_acled')
IsOutputFile(name) == StartsWith(name, ConsolidatedAcled)

\* re.compile(r"^(\d{2})-acled.*\.csv$").match(name): two decimal digits,
\* "-acled", any characters but newlines, and ".csv" at the end of the name
\* or before a newline that ends the name
PatternMatch(name) ==
    /\ Len(name) >= 2 + Len(DashAcled) + Len(DotCsv)
    /\ name[1] \in Digits
    /\ name[2] \in Digits
    /\ SubSeq(name, 3, 2 + Len(DashAcled)) = DashAcled
    /\ \E e \in {Len(name) - 1, Len(name)} :
         /\ e = Len(name) \/ name[Len(name)] = Newline
         /\ e >= 2 + Len(DashAcled) + Len(DotCsv)
         /\ SubSeq(name, e - Len(DotCsv) + 1, e) = DotCsv
         /\ \A i \in (3 + Len(DashAcled))..(e - Len(DotCsv)) : name[i] # Newline

\* int(match.group(1))
Prefix(name) == 10 * DigitVal(name[1]) + DigitVal(name[2])

\* the output file concat writes: source_dir / "consolidated_acled.csv"
OutName == ConsolidatedAcled \o DotCsv

----------------------------------------------------------------------------
(* Generic helpers on sequences *)

Range(s) == {s[i] : i \in 1..Len(s)}

\* A stable sort of s by a strict order, given as lt[i, j] = "s[i] is less
\* than s[j]": the element at index i goes to the place given by the number
\* of elements less than it, plus the number of elements that are neither
\* less nor greater and stand before it in s.
SortStable(s, lt) ==
    LET Rank(i) ==
            Cardinality({j \in 1..Len(s) : lt[j, i]})
            + Cardinality({j \in 1..(i - 1) : ~lt[j, i] /\ ~lt[i, j]})
            + 1
    IN  [p \in 1..Len(s) |-> s[CHOOSE i \in 1..Len(s) : Rank(i) = p]]

----------------------------------------------------------------------------
(* Shard discovery: _get_lexically_sorted_csv_paths *)

\* all_csvs, in the order of the listing
all_csvs(ls) == SelectSeq(ls, IsCsv)

IsValidName(name) == ~IsOutputFile(name) /\ PatternMatch(name)
IsInvalidName(name) == ~IsOutputFile(name) /\ ~PatternMatch(name)

\* valid_files: the (prefix, path) pairs that the loop appends
valid_files(ls) ==
    LET kept == SelectSeq(all_csvs(ls), IsValidName)
    IN  [i \in 1..Len(kept) |-> <<Prefix(kept[i]), kept[i]>>]

\* invalid_files: the names that the loop appends
InvalidFilesFirstOnly(ls) ==
    LET bad == SelectSeq(all_csvs(ls), IsInvalidName)
    IN  IF bad = <<>> THEN <<>> ELSE <<bad[1]>>
invalid_files(ls) == SelectSeq(all_csvs(ls), IsInvalidName)

PrefixLess(a, b) == a[1] < b[1]

\* sorted(valid_files, key=lambda x: x[0]), then the paths alone
UnsortedPaths(ls) == [i \in 1..Len(valid_files(ls)) |-> valid_files(ls)[i][2]]
sorted_paths(ls) ==
    LET vf == valid_files(ls)
        srt == SortStable(vf, [i \in 1..Len(vf), j \in 1..Len(vf) |->
                                   PrefixLess(vf[i], vf[j])])
    IN  [i \in 1..Len(srt) |-> srt[i][2]]

NoError == [kind |-> "none", names |-> <<>>]

\* The result of _get_lexically_sorted_csv_paths(source_dir): the paths, or
\* the RuntimeError raised (with the names its message lists).
GetLexicallySortedCsvPaths(ls) ==
    IF Len(invalid_files(ls)) > 0
    THEN [ok |-> FALSE, paths |-> <<>>,
          err |-> [kind |-> "invalid_names", names |-> invalid_files(ls)]]
    ELSE IF Len(valid_files(ls)) < 2
    THEN [ok |-> FALSE, paths |-> <<>>,
          err |-> [kind |-> "too_few", names |-> <<>>]]
    ELSE [ok |-> TRUE, paths |-> sorted_paths(ls), err |-> NoError]

----------------------------------------------------------------------------
(* Tables *)

RETAINED_COLS ==
    {"event_id_cnty", "iso", "iso3", "event_date", "year",
     "time_precision", "event_type", "sub_event_type",
     "actor1", "assoc_actor_1", "inter1", "actor2", "assoc_actor_2",
     "inter2", "interaction", "region", "country",
     "admin1", "admin2", "admin3", "location", "latitude", "longitude",
     "geo_precision", "source", "source_scale", "notes", "fatalities",
     "timestamp", "_orig_fname"}

\* The static map of numeric country codes (module iso_map is not part of
\* the sources; the keys and values are those the tests install).
ISO_MAP == (123 :> "ABC") @@ (456 :> "XYZ")

Ids == 1..NumIds
Dates == 1..NumDates
Stamps == 1..NumTs

SeqUpTo(S, n) == UNION {[1..m -> S] : m \in 0..n}

\* pd.concat([df1, df2]): the rows of df1, then the rows of df2
PdConcatReversed(df1, df2) == df2 \o df1
PdConcat(df1, df2) == df1 \o df2

\* The maximum and the minimum of an empty date column
NaT == -1

\* df.event_date.max() and df.event_date.min()
MaxDate(df) ==
    IF df = <<>> THEN NaT
    ELSE CHOOSE d \in {df[i].event_date : i \in 1..Len(df)} :
            \A i \in 1..Len(df) : df[i].event_date <= d
MinDate(df) ==
    IF df = <<>> THEN NaT
    ELSE CHOOSE d \in {df[i].event_date : i \in 1..Len(df)} :
            \A i \in 1..Len(df) : df[i].event_date >= d

\* a < b on dates: every comparison with NaT is false
DateLess(a, b) == a # NaT /\ b # NaT /\ a < b

IdTsLess(r, s) ==
    \/ r.event_id_cnty < s.event_id_cnty
    \/ r.event_id_cnty = s.event_id_cnty /\ r.timestamp < s.timestamp

DateIdLess(r, s) ==
    \/ r.event_date < s.event_date
    \/ r.event_date = s.event_date /\ r.event_id_cnty < s.event_id_cnty

IdLess(r, s) == r.event_id_cnty < s.event_id_cnty

\* df.sort_values(["event_id_cnty", "timestamp"]): a stable sort on both keys
SortByIdOnly(df) ==
    SortStable(df, [i \in 1..Len(df), j \in 1..Len(df) |-> IdLess(df[i], df[j])])
SortByIdTs(df) ==
    SortStable(df, [i \in 1..Len(df), j \in 1..Len(df) |-> IdTsLess(df[i], df[j])])

\* df.drop_duplicates(["event_id_cnty"], keep="last"): a row stays when no
\* later row has its event_id_cnty; the order of the rows is kept
KeepsLast(df, i) ==
    \A j \in (i + 1)..Len(df) : df[j].event_id_cnty # df[i].event_id_cnty

RECURSIVE DropFrom(_, _)
DropFrom(df, i) ==
    IF i > Len(df) THEN <<>>
    ELSE IF KeepsLast(df, i) THEN <<df[i]>> \o DropFrom(df, i + 1)
    ELSE DropFrom(df, i + 1)

\* a variant that takes (event_id_cnty, timestamp) as the key
KeepsLastOfIdTs(df, i) ==
    \A j \in (i + 1)..Len(df) :
        \/ df[j].event_id_cnty # df[i].event_id_cnty
        \/ df[j].timestamp # df[i].timestamp
DropDuplicatesOfIdTs(df) ==
    LET kept == {i \in 1..Len(df) : KeepsLastOfIdTs(df, i)}
        Nth(p) == CHOOSE i \in kept : Cardinality({j \in kept : j <= i}) = p
    IN  [p \in 1..Cardinality(kept) |-> df[Nth(p)]]

DropDuplicatesKeepLast(df) == DropFrom(df, 1)

\* df.sort_values(["event_date", "event_id_cnty"]), then reset_index
SortSkipped(df) == df
SortByDateId(df) ==
    SortStable(df, [i \in 1..Len(df), j \in 1..Len(df) |-> DateIdLess(df[i], df[j])])

\* df1.empty or df2.empty
EitherEmptyBoth(df1, df2) == df1 = <<>> /\ df2 = <<>>
EitherEmpty(df1, df2) == df1 = <<>> \/ df2 = <<>>

\* max1 < min2, with max1 = df1.event_date.max(), min2 = df2.event_date.min()
HasGapLe(df1, df2) ==
    MaxDate(df1) = MinDate(df2) \/ DateLess(MaxDate(df1), MinDate(df2))
HasGapReversed(df1, df2) == DateLess(MinDate(df2), MaxDate(df1))
HasGap(df1, df2) == DateLess(MaxDate(df1), MinDate(df2))

\* _concat_two_dfs(df1, df2): the merged table, or the RuntimeError raised
ConcatTwoDfs(df1, df2) ==
    IF EitherEmpty(df1, df2)
    THEN [ok |-> FALSE, df |-> <<>>,
          err |-> [kind |-> "empty", names |-> <<>>]]
    ELSE IF HasGap(df1, df2)
    THEN [ok |-> FALSE, df |-> <<>>,
          err |-> [kind |-> "gap", names |-> <<>>]]
    ELSE [ok |-> TRUE,
          df |-> SortByDateId(DropDuplicatesKeepLast(SortByIdTs(PdConcat(df1, df2)))),
          err |-> NoError]

\* consolidated.duplicated('event_id_cnty').sum()
DuplicatedCount(df) ==
    Cardinality({i \in 1..Len(df) :
        \E j \in 1..(i - 1) : df[j].event_id_cnty = df[i].event_id_cnty})

----------------------------------------------------------------------------
(* Shard loading: _load_and_format_df and _format_df *)

\* A CSV file as read_csv sees it: whether it parses, its columns, and its
\* rows (iso3 is read only when the file has that column).
RawRow(id, d, ts, iso, iso3) ==
    [event_id_cnty |-> id, event_date |-> d, timestamp |-> ts,
     iso |-> iso, iso3 |-> iso3]

FileColumns == RETAINED_COLS \ {"_orig_fname"}

\* _format_df(df), for a table whose rows carry _orig_fname = fname
FormatDf(columns, rows, fname) ==
    LET need_iso3 == "iso3" \notin columns
        unknown == {rows[i].iso : i \in 1..Len(rows)} \ DOMAIN ISO_MAP
        columns2 == IF need_iso3 THEN columns \cup {"iso3"} ELSE columns
        missing_cols == RETAINED_COLS \ columns2
        Row(r) == [event_id_cnty |-> r.event_id_cnty,
                   iso |-> r.iso,
                   iso3 |-> IF need_iso3 THEN ISO_MAP[r.iso] ELSE r.iso3,
                   event_date |-> r.event_date,
                   timestamp |-> r.timestamp,
                   orig_fname |-> fname]
    IN  IF need_iso3 /\ "iso" \notin columns
        THEN [ok |-> FALSE, df |-> <<>>,
              err |-> [kind |-> "no_iso", names |-> <<>>]]
        ELSE IF need_iso3 /\ unknown # {}
        THEN [ok |-> FALSE, df |-> <<>>,
              err |-> [kind |-> "unknown_iso", names |-> <<>>]]
        ELSE IF missing_cols # {}
        THEN [ok |-> FALSE, df |-> <<>>,
              err |-> [kind |-> "missing_cols", names |-> <<>>]]
        ELSE [ok |-> TRUE,
              df |-> [i \in 1..Len(rows) |-> Row(rows[i])],
              err |-> NoError]

\* _load_and_format_df(path), with the file at path holding raw
LoadAndFormatDf(path, raw) ==
    IF ~raw.readable
    THEN [ok |-> FALSE, df |-> <<>>,
          err |-> [kind |-> "parse", names |-> <<>>]]
    ELSE FormatDf(raw.columns \cup {"_orig_fname"}, raw.rows, path)

----------------------------------------------------------------------------
(* The inputs of the model: directories and files *)

\* the character of a digit, as str() writes it
DigitChar(n) == Ord("0") + n

\* the name NN-acled<desc>.csv
ShardName(n, desc) ==
    <<DigitChar(n \div 10), DigitChar(n % 10)>> \o DashAcled \o Str(desc) \o DotCsv

\* the sequences of distinct names of pool, of length at most n
Listings(pool, n) ==
    {s \in SeqUpTo(pool, n) : \A i, j \in 1..Len(s) : i # j => s[i] # s[j]}

\* the digits 0 and 2 of the Arabic-Indic run of decimal digits
ArabicIndic02 == <<1632, 1634>>

\* Names of the discovery specification: shards (two of them with the same
\* prefix, one with a prefix in Arabic-Indic digits), names that break the
\* pattern (one of them by a newline in its description), old output files,
\* and files that are no CSV files (one of them a shard name followed by a
\* newline).
DiscoverPool ==
    {ShardName(1, <<>>), ShardName(1, <<"_", "b">>), ShardName(2, <<>>),
     ShardName(10, <<>>),
     ArabicIndic02 \o DashAcled \o DotCsv,
     Str(<<"a", "c", "l", "e", "d">>) \o DotCsv,
     Str(<<"3">>) \o DashAcled \o DotCsv,
     Str(<<"0", "2">>) \o DashAcled \o <<Newline>> \o DotCsv,
     OutName,
     ConsolidatedAcled \o Str(<<"_", "o", "l", "d">>) \o DotCsv,
     Str(<<"0", "4">>) \o DashAcled \o Str(<<".", "t", "x", "t">>),
     ShardName(1, <<>>) \o <<Newline>>}

\* Shard files of the merge specification: well-formed files with every
\* column, and any rows.
MergeRows == {RawRow(id, d, ts, 123, "ABC") : id \in Ids, d \in Dates, ts \in Stamps}
MergeFiles ==
    {[readable |-> TRUE, columns |-> FileColumns, rows |-> rs] :
        rs \in SeqUpTo(MergeRows, MaxRows)}

\* largest number of shards (merge specification)
MaxShards == 3

\* Directories of the merge specification: n shards, listed last to first
MergeListings ==
    {[i \in 1..n |-> ShardName(n + 1 - i, <<>>)] : n \in 2..MaxShards}

\* largest number of shards (chain specification)
MaxChain == 4
\* event identifiers of the chain specification are 1..ChainIds
ChainIds == 3
\* event dates of the chain specification are 1..ChainDates
ChainDates == 3

\* Shard files of the chain specification: well-formed files of one row at
\* most, over more identifiers and dates
ChainRows ==
    {RawRow(id, d, ts, 123, "ABC") :
        id \in 1..ChainIds, d \in 1..ChainDates, ts \in Stamps}
ChainFiles ==
    {[readable |-> TRUE, columns |-> FileColumns, rows |-> rs] :
        rs \in SeqUpTo(ChainRows, 1)}

\* Directories of the chain specification: n shards, listed first to last
ChainListings ==
    {[i \in 1..n |-> ShardName(i, <<>>)] : n \in 2..MaxChain}

\* largest number of files in source_dir (driver specification)
MaxDriverFiles == 4

\* Directories of the driver specification
DriverPool ==
    {ShardName(1, <<>>), ShardName(2, <<>>), ShardName(3, <<>>),
     Str(<<"a", "c", "l", "e", "d">>) \o DotCsv, OutName}

\* Shard files of the driver specification: files that fail to load (not
\* parseable, a column missing, a country code not in the map), an empty
\* table, and tables of one row.
DriverFiles ==
    {[readable |-> FALSE, columns |-> {}, rows |-> <<>>],
     [readable |-> TRUE, columns |-> FileColumns \ {"timestamp"},
      rows |-> <<RawRow(1, 1, 1, 123, "ABC")>>],
     [readable |-> TRUE, columns |-> FileColumns \ {"iso3"},
      rows |-> <<RawRow(1, 1, 1, 999, "")>>],
     [readable |-> TRUE, columns |-> FileColumns \ {"iso3"},
      rows |-> <<RawRow(2, 1, 1, 456, "")>>],
     [readable |-> TRUE, columns |-> FileColumns, rows |-> <<>>]}
    \cup
    {[readable |-> TRUE, columns |-> FileColumns,
      rows |-> <<RawRow(1, d, ts, 123, "ABC")>>] : d \in 1..2, ts \in 1..2}

----------------------------------------------------------------------------
(* The state machine of concat *)

\* The output file before the run: an old one when the directory lists it
OutFileBefore(ls) ==
    IF OutName \in Range(ls)
    THEN [state |-> "old", rows |-> <<>>]
    ELSE [state |-> "absent", rows |-> <<>>]

InitWith(ls) ==
    /\ listing \in ls
    /\ pc = "discover"
    /\ shard_paths = <<>>
    /\ dataframes = <<>>
    /\ consolidated = <<>>
    /\ k = 2
    /\ out_file = OutFileBefore(listing)
    /\ n_writes = 0
    /\ error = NoError

\* concat, line 52: shard_paths = _get_lexically_sorted_csv_paths(source_dir)
Discover ==
    /\ pc = "discover"
    /\ LET res == GetLexicallySortedCsvPaths(listing)
       IN  IF res.ok
           THEN /\ shard_paths' = res.paths
                /\ pc' = "load"
                /\ error' = error
           ELSE /\ shard_paths' = shard_paths
                /\ pc' = "failed"
                /\ error' = res.err
    /\ UNCHANGED <<listing, dataframes, consolidated, k, out_file, n_writes>>

\* concat, line 56: one element of the list comprehension that loads the
\* shards, the file holding one of files; after the last one, line 59 makes
\* the first table the accumulator.
LoadFrom(files) ==
    /\ pc = "load"
    /\ Len(dataframes) < Len(shard_paths)
    /\ \E raw \in files :
         LET res == LoadAndFormatDf(shard_paths[Len(dataframes) + 1], raw)
             dfs == Append(dataframes, res.df)
         IN  IF res.ok
             THEN /\ dataframes' = dfs
                  /\ error' = error
                  /\ IF Len(dfs) = Len(shard_paths)
                     THEN /\ pc' = "fold"
                          /\ consolidated' = dfs[1]
                     ELSE /\ pc' = "load"
                          /\ consolidated' = consolidated
             ELSE /\ dataframes' = dataframes
                  /\ error' = res.err
                  /\ pc' = "failed"
                  /\ consolidated' = consolidated
    /\ UNCHANGED <<listing, shard_paths, k, out_file, n_writes>>

LoadShard == LoadFrom(MergeFiles)
LoadFile == LoadFrom(DriverFiles)
LoadLink == LoadFrom(ChainFiles)

\* a variant of the fold loop that goes on to the write when a merge fails
FoldThenWrite ==
    /\ pc = "fold"
    /\ k <= Len(dataframes)
    /\ LET res == ConcatTwoDfs(consolidated, dataframes[k])
       IN  IF ~res.ok
           THEN /\ pc' = "write"
                /\ error' = res.err
                /\ UNCHANGED <<consolidated, k>>
           ELSE /\ consolidated' = res.df
                /\ k' = k + 1
                /\ pc' = IF k + 1 > Len(dataframes) THEN "write" ELSE "fold"
                /\ error' = error
    /\ UNCHANGED <<listing, shard_paths, dataframes, out_file, n_writes>>

\* concat, lines 61-63: one pass of the fold loop
Fold ==
    /\ pc = "fold"
    /\ k <= Len(dataframes)
    /\ LET res == ConcatTwoDfs(consolidated, dataframes[k])
       IN  IF ~res.ok
           THEN /\ pc' = "failed"
                /\ error' = res.err
                /\ UNCHANGED <<consolidated, k>>
           ELSE IF DuplicatedCount(res.df) # 0
           THEN /\ pc' = "failed"
                /\ error' = [kind |-> "assertion", names |-> <<>>]
                /\ consolidated' = res.df
                /\ k' = k
           ELSE /\ consolidated' = res.df
                /\ k' = k + 1
                /\ pc' = IF k + 1 > Len(dataframes) THEN "write" ELSE "fold"
                /\ error' = error
    /\ UNCHANGED <<listing, shard_paths, dataframes, out_file, n_writes>>

\* concat, lines 66-69: consolidated.to_csv(out_path), and return
Write ==
    /\ pc = "write"
    /\ out_file' = [state |-> "written", rows |-> consolidated]
    /\ n_writes' = n_writes + 1
    /\ pc' = "done"
    /\ UNCHANGED <<listing, shard_paths, dataframes, consolidated, k, error>>

\* The driver: any directory, files that may fail to load
Init == InitWith(Listings(DriverPool, MaxDriverFiles))
Next == Discover \/ LoadFile \/ Fold \/ Write
Spec == Init /\ [][Next]_vars

\* Discovery alone, over directories of many kinds of names
InitDiscover == InitWith(Listings(DiscoverPool, MaxFiles))
NextDiscover == Discover
SpecDiscover == InitDiscover /\ [][NextDiscover]_vars

\* The merge: directories of well-named shards, shards of any rows
InitMerge == InitWith(MergeListings)
NextMerge == Discover \/ LoadShard \/ Fold \/ Write
SpecMerge == InitMerge /\ [][NextMerge]_vars

\* The merge of many small shards: shards of one row at most
InitChain == InitWith(ChainListings)
NextChain == Discover \/ LoadLink \/ Fold \/ Write
SpecChain == InitChain /\ [][NextChain]_vars

----------------------------------------------------------------------------
(* Vocabulary of the properties *)

\* at least one fold step has succeeded: consolidated is a merged table
Merged == k > 2

\* the number of shards folded into consolidated
NumFolded == k - 1

NoDuplicateIds(df) ==
    \A i, j \in 1..Len(df) : i # j => df[i].event_id_cnty # df[j].event_id_cnty

IsSortedByDateId(df) ==
    \A i \in 1..(Len(df) - 1) :
        \/ df[i].event_date < df[i + 1].event_date
        \/ /\ df[i].event_date = df[i + 1].event_date
           /\ df[i].event_id_cnty <= df[i + 1].event_id_cnty

\* the rows of shard i that are versions of event id
Versions(i, id) ==
    {j \in 1..Len(dataframes[i]) : dataframes[i][j].event_id_cnty = id}

\* the shards among the first n that hold event id
ShardsWith(id, n) == {i \in 1..n : Versions(i, id) # {}}

\* the identifiers of the first n shards
IdsOf(n) ==
    UNION {{dataframes[i][j].event_id_cnty : j \in 1..Len(dataframes[i])} :
             i \in 1..n}

\* the largest timestamp of the versions of id in shard i (which holds one)
MaxTs(i, id) ==
    CHOOSE t \in {dataframes[i][j].timestamp : j \in Versions(i, id)} :
        \A j \in Versions(i, id) : dataframes[i][j].timestamp <= t

\* the rows of consolidated that are versions of event id
Retained(id) ==
    {i \in 1..Len(consolidated) : consolidated[i].event_id_cnty = id}

\* the rows of the first n shards, shard after shard
RECURSIVE RowsUpTo(_)
RowsUpTo(n) == IF n = 0 THEN <<>> ELSE RowsUpTo(n - 1) \o dataframes[n]

\* the version of id that the tie-break names, among the first n shards (one
\* of which holds id): of the shards that hold the largest timestamp of id,
\* the last one; of its rows with that timestamp, the last one
Survivor(id, n) ==
    LET holders == ShardsWith(id, n)
        top == CHOOSE t \in {MaxTs(i, id) : i \in holders} :
                   \A i \in holders : MaxTs(i, id) <= t
        shard == CHOOSE i \in holders :
                   /\ MaxTs(i, id) = top
                   /\ \A h \in holders : MaxTs(h, id) = top => h <= i
        rows == {j \in Versions(shard, id) : dataframes[shard][j].timestamp = top}
        row == CHOOSE j \in rows : \A j2 \in rows : j2 <= j
    IN  dataframes[shard][row]

----------------------------------------------------------------------------
(* Properties of the merge (specification SpecMerge) *)

\* C1: the assertion of the fold loop never fails, and after every fold
\* step the accumulator holds no two rows with the same event_id_cnty,
\* also when a shard itself repeats an event_id_cnty.
C1_Uniqueness ==
    /\ error.kind # "assertion"
    /\ Merged => NoDuplicateIds(consolidated)

\* C1, witness: a merge of three shards is done, the first shard holds the
\* same event twice, and another shard holds that event too.
C1_Witness ==
    /\ pc = "done"
    /\ Len(dataframes) = 3
    /\ \E id \in Ids :
         /\ Cardinality(Versions(1, id)) = 2
         /\ Versions(2, id) # {}

\* C2: after a successful merge, an event held by more than one shard has
\* exactly one row in the consolidated table; when one shard's version has a
\* timestamp strictly greater than that of every version in the other
\* shards, the row is a row of that shard with that timestamp, and its
\* _orig_fname is the name of that shard.
C2_Dedup ==
    pc = "done" =>
        \A id \in IdsOf(Len(dataframes)) :
            LET holders == ShardsWith(id, Len(dataframes))
            IN  Cardinality(holders) > 1 =>
                  /\ Cardinality(Retained(id)) = 1
                  /\ \A w \in holders :
                       (\A h \in holders \ {w} : MaxTs(h, id) < MaxTs(w, id)) =>
                         \A r \in Retained(id) :
                           /\ consolidated[r].orig_fname = shard_paths[w]
                           /\ consolidated[r].timestamp = MaxTs(w, id)
                           /\ \E j \in Versions(w, id) :
                                dataframes[w][j] = consolidated[r]

\* C2, witness: of three shards that all hold an event, the second holds
\* the version with the strictly greatest timestamp, with a date that the
\* other versions do not have.
C2_Witness ==
    /\ pc = "done"
    /\ Len(dataframes) = 3
    /\ \E id \in Ids :
         /\ ShardsWith(id, 3) = {1, 2, 3}
         /\ MaxTs(1, id) < MaxTs(2, id)
         /\ MaxTs(3, id) < MaxTs(2, id)
         /\ \A r \in Retained(id) :
              /\ \A j \in Versions(1, id) :
                   dataframes[1][j].event_date # consolidated[r].event_date
              /\ \A j \in Versions(3, id) :
                   dataframes[3][j].event_date # consolidated[r].event_date

\* C3: a merge step on two tables with rows fails with the contiguity error
\* when the largest date of the first is strictly less than the smallest date
\* of the second, and succeeds when it is equal or greater.
C3_GapProperty ==
    [][(pc = "fold" /\ consolidated # <<>> /\ dataframes[k] # <<>>) =>
         IF MaxDate(consolidated) < MinDate(dataframes[k])
         THEN pc' = "failed" /\ error'.kind = "gap" /\ consolidated' = consolidated
         ELSE /\ pc' \in {"fold", "write"}
              /\ error' = NoError
              /\ k' = k + 1
              /\ Range(consolidated') \subseteq
                     Range(consolidated) \cup Range(dataframes[k])]_vars

\* C3, witness: the first two shards touch (the largest date of the first is
\* the smallest date of the second) and were merged, and the merge with the
\* third shard has failed on a gap.
C3_Witness ==
    /\ pc = "failed"
    /\ error.kind = "gap"
    /\ k = 3
    /\ MaxDate(dataframes[1]) = MinDate(dataframes[2])
    /\ MaxDate(consolidated) < MinDate(dataframes[3])

\* C4, as stated: after a successful merge, every shard's largest date is
\* at least the smallest date of the shard that follows it.
C4_ConsecutiveShardsContiguous ==
    pc = "done" =>
        \A i \in 1..(Len(dataframes) - 1) :
            MaxDate(dataframes[i]) >= MinDate(dataframes[i + 1])

\* C4, amended: for every shard folded into the accumulator, the largest
\* date of the shards before it, taken together, is at least its smallest
\* date; for the second shard this is the largest date of the first shard.
C4_AccumulatedContiguity ==
    Merged =>
        /\ \A i \in 1..(NumFolded - 1) :
             /\ RowsUpTo(i) # <<>>
             /\ dataframes[i + 1] # <<>>
             /\ MaxDate(RowsUpTo(i)) >= MinDate(dataframes[i + 1])
        /\ MaxDate(dataframes[1]) >= MinDate(dataframes[2])

\* C4, witness: a merge of three shards is done although the largest date of
\* the second shard is less than the smallest date of the third.
C4_Witness ==
    /\ pc = "done"
    /\ Len(dataframes) = 3
    /\ MaxDate(dataframes[2]) < MinDate(dataframes[3])

\* C5 (specification SpecChain): after every fold step the accumulator is sorted ascending by
\* (event_date, event_id_cnty), and so is the table that concat writes,
\* which is the accumulator.
C5_SortOrder ==
    /\ Merged => IsSortedByDateId(consolidated)
    /\ pc = "done" =>
         /\ out_file = [state |-> "written", rows |-> consolidated]
         /\ IsSortedByDateId(out_file.rows)

\* C5, witness (specification SpecChain): the written table has three rows,
\* two of them with the same date, and its first row comes from the last of
\* four shards.
C5_Witness ==
    /\ pc = "done"
    /\ out_file.state = "written"
    /\ Len(out_file.rows) >= 3
    /\ \E i \in 1..(Len(out_file.rows) - 1) :
         out_file.rows[i].event_date = out_file.rows[i + 1].event_date
    /\ out_file.rows[1].event_date < out_file.rows[Len(out_file.rows)].event_date
    /\ Len(shard_paths) = 4
    /\ out_file.rows[1].orig_fname = shard_paths[4]

\* C6: a merge step with a table of no rows, on either side, fails with the
\* empty-shard error whatever the dates of the other table; no run reaches
\* the write with a shard of no rows.
C6_EmptyShardRejected ==
    /\ [][(pc = "fold" /\ (consolidated = <<>> \/ dataframes[k] = <<>>)) =>
            /\ pc' = "failed"
            /\ error'.kind = "empty"
            /\ consolidated' = consolidated]_vars
    /\ [](pc \in {"write", "done"} =>
            \A i \in 1..Len(dataframes) : dataframes[i] # <<>>)

\* C6, witness: the first shard has no rows, the second has rows, and the
\* first merge step has failed with the empty-shard error.
C6_Witness ==
    /\ pc = "failed"
    /\ error.kind = "empty"
    /\ k = 2
    /\ dataframes[1] = <<>>
    /\ dataframes[2] # <<>>

\* C9: after every fold step, the row the accumulator holds for an event is
\* the version that the tie-break names: among the versions with the largest
\* timestamp, the one of the last shard that holds one, and of that shard's
\* rows the last.
C9_TieBreak ==
    (Merged /\ error.kind # "assertion") =>
        \A id \in IdsOf(NumFolded) :
            /\ Retained(id) # {}
            /\ \A r \in Retained(id) : consolidated[r] = Survivor(id, NumFolded)

\* C9, witness: of three shards, the first two hold versions of an event
\* with the same timestamp and different dates, the third holds a version
\* with a smaller timestamp, and the merge is done.
C9_Witness ==
    /\ pc = "done"
    /\ Len(dataframes) = 3
    /\ \E id \in Ids :
         /\ ShardsWith(id, 3) = {1, 2, 3}
         /\ MaxTs(1, id) = MaxTs(2, id)
         /\ MaxTs(3, id) < MaxTs(2, id)
         /\ \A i \in Versions(1, id), j \in Versions(2, id) :
              dataframes[1][i].event_date # dataframes[2][j].event_date

----------------------------------------------------------------------------
(* Properties of the discovery (specification SpecDiscover) *)

\* the names of the directory that are CSV files and no output files
ShardCandidates ==
    {n \in Range(listing) : IsCsv(n) /\ ~StartsWith(n, ConsolidatedAcled)}

\* the place of a name in the listing
PlaceOf(n) == CHOOSE i \in 1..Len(listing) : listing[i] = n

\* the directory holds two candidates or more, and all match the pattern
AllCandidatesValid ==
    /\ Cardinality(ShardCandidates) >= 2
    /\ \A n \in ShardCandidates : PatternMatch(n)

\* C7, as stated: when all candidates match the pattern and there are two or
\* more, discovery returns all of them in strictly ascending order of prefix.
C7_StrictlyAscending ==
    (pc # "discover" /\ AllCandidatesValid) =>
        /\ pc = "load"
        /\ Range(shard_paths) = ShardCandidates
        /\ \A i, j \in 1..Len(shard_paths) :
             i < j => Prefix(shard_paths[i]) < Prefix(shard_paths[j])

\* C7, amended: discovery returns all candidates, each once, in ascending
\* order of prefix; names with the same prefix stand in the order of the
\* listing.  With distinct prefixes the order is strictly ascending, whatever
\* the order of the listing.
C7_Ascending ==
    (pc # "discover" /\ AllCandidatesValid) =>
        /\ pc = "load"
        /\ Range(shard_paths) = ShardCandidates
        /\ Len(shard_paths) = Cardinality(ShardCandidates)
        /\ \A i, j \in 1..Len(shard_paths) :
             i < j =>
               \/ Prefix(shard_paths[i]) < Prefix(shard_paths[j])
               \/ /\ Prefix(shard_paths[i]) = Prefix(shard_paths[j])
                  /\ PlaceOf(shard_paths[i]) < PlaceOf(shard_paths[j])

\* C7, witness: discovery has returned three shards or more, among them two
\* with the same prefix, from a listing that names the largest prefix first.
C7_Witness ==
    /\ pc = "load"
    /\ Len(shard_paths) >= 3
    /\ IsValidName(listing[1])
    /\ Prefix(listing[1]) = 10
    /\ \E i \in 1..(Len(shard_paths) - 1) :
         Prefix(shard_paths[i]) = Prefix(shard_paths[i + 1])

\* C8: discovery fails when a candidate breaks the pattern, also with fewer
\* than two valid files, and the error names every such candidate; output
\* files and files that are no CSV files are neither named by the error nor
\* returned.
C8_Rejection ==
    pc # "discover" =>
        LET bad == {n \in ShardCandidates : ~PatternMatch(n)}
        IN  /\ bad # {} =>
                  /\ pc = "failed"
                  /\ error.kind = "invalid_names"
                  /\ Range(error.names) = bad
                  /\ shard_paths = <<>>
            /\ \A n \in Range(listing) :
                  (StartsWith(n, ConsolidatedAcled) \/ ~IsCsv(n)) =>
                      /\ n \notin Range(error.names)
                      /\ n \notin Range(shard_paths)

\* C8, witness: discovery has failed naming two files, one of them a name
\* with a newline in its description, in a directory with one valid shard
\* and an old output file.
C8_Witness ==
    /\ pc = "failed"
    /\ Len(error.names) = 2
    /\ \E i \in 1..2 : Newline \in Range(error.names[i])
    /\ Len(valid_files(listing)) = 1
    /\ OutName \in Range(listing)

----------------------------------------------------------------------------
(* Properties of the driver (specification Spec) *)

DiscoveryErrors == {"invalid_names", "too_few"}
LoadErrors == {"parse", "no_iso", "unknown_iso", "missing_cols"}
FoldErrors == {"empty", "gap", "assertion"}

\* C10: the output file is written at most once, and only when discovery,
\* the loading of every shard and every fold step have succeeded; a run that
\* fails leaves the output file as it was, stops at the stage that failed
\* (no later stage has run), and takes no further step.
C10_NoPartialResult ==
    /\ [](/\ n_writes <= 1
          /\ n_writes = 1 =>
               /\ pc = "done"
               /\ error = NoError
               /\ Len(shard_paths) >= 2
               /\ Len(dataframes) = Len(shard_paths)
               /\ k = Len(dataframes) + 1
               /\ out_file = [state |-> "written", rows |-> consolidated]
          /\ n_writes = 0 => out_file = OutFileBefore(listing)
          /\ pc = "failed" =>
               /\ n_writes = 0
               /\ error.kind \in DiscoveryErrors \cup LoadErrors \cup FoldErrors
               /\ error.kind \in DiscoveryErrors =>
                    shard_paths = <<>> /\ dataframes = <<>>
               /\ error.kind \in DiscoveryErrors \cup LoadErrors =>
                    consolidated = <<>> /\ k = 2
               /\ error.kind \in LoadErrors =>
                    Len(dataframes) < Len(shard_paths)
               /\ error.kind \in FoldErrors => k <= Len(dataframes)
          /\ pc # "failed" => error = NoError)
    /\ [][pc \notin {"failed", "done"}]_vars

\* C10, witness: the second fold step of a run has failed on a date gap, in
\* a directory that held an old output file, which is still the old one.
C10_Witness ==
    /\ pc = "failed"
    /\ error.kind = "gap"
    /\ k = 3
    /\ out_file.state = "old"

====
